---- MODULE Spec2Model ----
(***************************************************************************)
(* The request pipeline of journal-backend: the connection lease           *)
(* middleware, the verifyJwt gate and the route handlers, in the three     *)
(* variants of the server (src/index.cjs, src/unnamed/part_000,            *)
(* src/unnamed/part_001).                                                  *)
(*                                                                         *)
(* Execution model.  Every async function runs synchronously up to its     *)
(* next await; one action is one such synchronous segment.  Express's      *)
(* next() dispatches the following layers synchronously and returns        *)
(* undefined, so `await next()` suspends its caller for one microtask      *)
(* only.  Microtasks run before any I/O completion: the actions that       *)
(* complete I/O are guarded by NoMicrotask.                                *)
(*                                                                         *)
(* The libraries (Express, mysql2, jsonwebtoken, bcrypt) are modelled by   *)
(* what they do at the calls the source makes.                             *)
(***************************************************************************)
EXTENDS Naturals, Sequences, FiniteSets

\* ------------------------------------------------------------ bounds
NReq == 2          \* requests in flight at the same time
PoolSize == 1      \* connections of the pool
MaxUsers == 2      \* rows of the user table
MaxRows == 1       \* rows of the entry table, and of the car table

Reqs == 1..NReq
Ids == 1..MaxUsers

Variants == {"index", "part_000", "part_001"}

\* ------------------------------------------------------------ tokens
\* The claims of a token that the pipeline reads.  0 is an absent id claim;
\* when is "ok" (no exp/nbf claim, or one that holds now), "expired" (exp in
\* the past) or "notbefore" (nbf in the future).
NoClaims == [userId |-> 0, UserID |-> 0, when |-> "ok"]

\* One space-delimited part of an Authorization header.  text is the part
\* itself for a word ("Bearer", "Basic", "", "x") and for a string that is no
\* JWT ("garbage": not three dot-separated segments; "undecodable": three
\* segments that do not decode); a JWT has text "jwt", claims and a signature
\* that is "good" (made with JWT_KEY) or "bad".
Word(w) == [text |-> w, claims |-> NoClaims, sig |-> "none"]

Jwt(c, s) == [text |-> "jwt", claims |-> c, sig |-> s]

\* jwt.sign(payload, process.env.JWT_KEY)
jwtSign(payload) == Jwt(payload, "good")

\* The tokens a client can make without the key.
Forged == {Word("garbage"), Word("undecodable"),
           Jwt([userId |-> 1, UserID |-> 0, when |-> "ok"], "bad")}

\* jwt.verify(token, process.env.JWT_KEY): the claims, or the error thrown.
\* `present` is FALSE when the token argument is undefined or "".
jwtVerify(present, tok) ==
  IF ~present \/ tok.text = ""
    THEN [ok |-> FALSE, name |-> "JsonWebTokenError", message |-> "jwt must be provided", claims |-> NoClaims]
  ELSE IF tok.text = "undecodable"
    THEN [ok |-> FALSE, name |-> "JsonWebTokenError", message |-> "invalid token", claims |-> NoClaims]
  ELSE IF tok.text # "jwt"
    THEN [ok |-> FALSE, name |-> "JsonWebTokenError", message |-> "jwt malformed", claims |-> NoClaims]
  ELSE IF tok.sig # "good"
    THEN [ok |-> FALSE, name |-> "JsonWebTokenError", message |-> "invalid signature", claims |-> NoClaims]
  ELSE IF tok.claims.when = "notbefore"
    THEN [ok |-> FALSE, name |-> "NotBeforeError", message |-> "jwt not active", claims |-> NoClaims]
  ELSE IF tok.claims.when = "expired"
    THEN [ok |-> FALSE, name |-> "TokenExpiredError", message |-> "jwt expired", claims |-> NoClaims]
  ELSE [ok |-> TRUE, name |-> "", message |-> "", claims |-> tok.claims]

\* err.message.toUpperCase() for the messages jwt.verify throws
toUpperCase(m) ==
  CASE m = "invalid token" -> "INVALID TOKEN"
    [] m = "jwt expired" -> "JWT EXPIRED"
    [] m = "jwt malformed" -> "JWT MALFORMED"
    [] m = "invalid signature" -> "INVALID SIGNATURE"
    [] m = "jwt must be provided" -> "JWT MUST BE PROVIDED"
    [] m = "jwt not active" -> "JWT NOT ACTIVE"
    [] OTHER -> m

\* ------------------------------------------------------------ requests
\* req.headers.authorization: absent, or the string as its space-delimited
\* parts (what authHeader.split(' ') returns; "" splits to <<Word("")>>).
NoHeader == [present |-> FALSE, parts |-> <<>>]

Header(parts) == [present |-> TRUE, parts |-> parts]

\* !authHeader
Falsy(h) == ~h.present \/ h.parts = <<Word("")>>

\* req.body.  "" and 0 are absent fields.
EmptyBody == [username |-> "", password |-> "", userId |-> 0, UserID |-> 0, when |-> "ok",
              id |-> 0, title |-> "", content |-> "", mood |-> ""]

\* A response: res.status(s).json(...) with what the body says and carries.
Response(s, m) == [status |-> s, msg |-> m, jwt |-> <<>>, rows |-> {}]

\* ------------------------------------------------------------ the gate
\* What one run of verifyJwt does to its request: the response it sends (none
\* or one), whether it called next(), whether it ended by throwing, req.user,
\* whether jwt.verify was called, whether a send hit a response already sent
\* (res.json throws ERR_HTTP_HEADERS_SENT), whether req.body was replaced.
GateResult(resp, nxt, threw, user, verified, resent, clobber) ==
  [resp |-> resp, next |-> nxt, threw |-> threw, user |-> user,
   verified |-> verified, resent |-> resent, clobber |-> clobber]

\* const [scheme, jwtToken] = authHeader.split(' ')
scheme(h) == h.parts[1]

hasToken(h) == Len(h.parts) >= 2

jwtToken(h) == IF hasToken(h) THEN h.parts[2] ELSE Word("")

\* verifyJwtA whose missing-header check sends the 401 and does not return.
verifyJwtA_NoReturn(h) ==
  IF Falsy(h)
    THEN GateResult(<<Response(401, "no_header")>>, TRUE, FALSE, <<>>, FALSE, FALSE, FALSE)
  ELSE IF scheme(h).text = "" \/ ~hasToken(h) \/ jwtToken(h).text = "" \/ scheme(h).text # "Bearer"
    THEN GateResult(<<Response(401, "bad_scheme")>>, FALSE, FALSE, <<>>, FALSE, FALSE, FALSE)
  ELSE LET v == jwtVerify(TRUE, jwtToken(h)) IN
    IF v.ok
      THEN GateResult(<<>>, TRUE, FALSE, <<v.claims>>, TRUE, FALSE, FALSE)
    ELSE IF v.name = "TokenExpiredError"
      THEN GateResult(<<Response(401, "expired")>>, FALSE, FALSE, <<>>, TRUE, FALSE, FALSE)
    ELSE IF v.name = "JsonWebTokenError"
      THEN GateResult(<<Response(401, "invalid")>>, FALSE, FALSE, <<>>, TRUE, FALSE, FALSE)
    ELSE GateResult(<<Response(500, "internal")>>, FALSE, FALSE, <<>>, TRUE, FALSE, FALSE)

\* verifyJwtA with jwt.decode in the place of jwt.verify: the claims of any
\* JWT are attached, whatever its signature and expiry.
verifyJwtA_Decode(h) ==
  IF Falsy(h)
    THEN GateResult(<<Response(401, "no_header")>>, FALSE, FALSE, <<>>, FALSE, FALSE, FALSE)
  ELSE IF scheme(h).text = "" \/ ~hasToken(h) \/ jwtToken(h).text = "" \/ scheme(h).text # "Bearer"
    THEN GateResult(<<Response(401, "bad_scheme")>>, FALSE, FALSE, <<>>, FALSE, FALSE, FALSE)
  ELSE IF jwtToken(h).text = "jwt"
    THEN GateResult(<<>>, TRUE, FALSE, <<jwtToken(h).claims>>, TRUE, FALSE, FALSE)
  ELSE GateResult(<<Response(401, "invalid")>>, FALSE, FALSE, <<>>, TRUE, FALSE, FALSE)

\* verifyJwt of index.cjs and part_000: every rejection returns.
verifyJwtA(h) ==
  IF Falsy(h)
    THEN GateResult(<<Response(401, "no_header")>>, FALSE, FALSE, <<>>, FALSE, FALSE, FALSE)
  ELSE IF scheme(h).text = "" \/ ~hasToken(h) \/ jwtToken(h).text = "" \/ scheme(h).text # "Bearer"
    THEN GateResult(<<Response(401, "bad_scheme")>>, FALSE, FALSE, <<>>, FALSE, FALSE, FALSE)
  ELSE LET v == jwtVerify(TRUE, jwtToken(h)) IN
    IF v.ok
      THEN GateResult(<<>>, TRUE, FALSE, <<v.claims>>, TRUE, FALSE, FALSE)
    ELSE IF v.name = "TokenExpiredError"
      THEN GateResult(<<Response(401, "expired")>>, FALSE, FALSE, <<>>, TRUE, FALSE, FALSE)
    ELSE IF v.name = "JsonWebTokenError"
      THEN GateResult(<<Response(401, "invalid")>>, FALSE, FALSE, <<>>, TRUE, FALSE, FALSE)
    ELSE GateResult(<<Response(500, "internal")>>, FALSE, FALSE, <<>>, TRUE, FALSE, FALSE)

\* verifyJwt of part_001: the header checks send a response and go on.
verifyJwtB(h) ==
  IF ~h.present
    \* res.json(...), then authHeader.split throws a TypeError
    THEN GateResult(<<Response(200, "no_header")>>, FALSE, TRUE, <<>>, FALSE, FALSE, FALSE)
  ELSE IF Falsy(h)
    \* res.json(...) twice: "" has scheme "" # 'Bearer'; the second send throws
    THEN GateResult(<<Response(200, "no_header")>>, FALSE, TRUE, <<>>, FALSE, TRUE, FALSE)
  ELSE LET sent == IF scheme(h).text # "Bearer" THEN <<Response(200, "bad_scheme")>> ELSE <<>>
           v == jwtVerify(hasToken(h), jwtToken(h)) IN
    IF v.ok
      THEN GateResult(sent, TRUE, FALSE, <<v.claims>>, TRUE, FALSE, FALSE)
    ELSE IF toUpperCase(v.message) \in {"INVALID TOKEN", "JWT EXPIRED"}
      \* req.status, req.body = err.message, emit('jwt-error'); then next()
      THEN GateResult(sent, TRUE, FALSE, <<>>, TRUE, FALSE, TRUE)
    \* throw((err.status || 500), err.message)
    ELSE GateResult(sent, FALSE, TRUE, <<>>, TRUE, FALSE, FALSE)

verifyJwt(v, h) == IF v = "part_001" THEN verifyJwtB(h) ELSE verifyJwtA(h)

\* ------------------------------------------------------------ routing
\* The layers of each variant in registration order (app.use / app.METHOD).
\* "login" is the variant's login path (/login, or /log-in in part_001); a
\* request's route is one of these names, or "other", a path no layer matches.
Layers(v) ==
  CASE v = "index" ->
         <<"car_delete", "car_get", "car_post", "register", "login", "verifyJwt">>
    [] v = "part_000" ->
         <<"register", "login", "verifyJwt",
           "entry_post", "entry_put", "entry_get", "entry_delete", "user_get">>
    [] v = "part_001" ->
         <<"car_delete", "car_get", "car_post", "register", "login", "verifyJwt">>

GateAt(v) == CHOOSE i \in 1..Len(Layers(v)) : Layers(v)[i] = "verifyJwt"

\* The routes whose handler is registered before the gate, and after it.
BeforeGate(v) == {Layers(v)[i] : i \in 1..(GateAt(v) - 1)}

AfterGate(v) == {Layers(v)[i] : i \in (GateAt(v) + 1)..Len(Layers(v))}

\* ------------------------------------------------------------ state
VARIABLES
  variant,          \* which of the three server files is running
  freeConnections,  \* the pool's queue of free connections
  users,            \* the user table: row i has id i
  entries,          \* the entry table: row i has EntryID i
  cars,             \* the number of rows of the car table
  issued,           \* the tokens signed with JWT_KEY so far
  req               \* the requests: inputs, req.db, req.user, positions, response

vars == <<variant, freeConnections, users, entries, cars, issued, req>>

\* A request slot before a request arrives on it.
\*   known     the tokens issued before the request was sent, until its
\*             header is read
\*   lease     position of the lease middleware: idle, getConnection, sql_mode,
\*             time_zone (the three awaits), afterNext (suspended at
\*             `await next()`), done, threw
\*   db        req.db, <<>> while undefined
\*   session   the session statements that completed on req.db, in order
\*   releases  how many times req.db.release() was called
\*   gate      notrun, next (verifyJwt called next()), rejected (it returned
\*             without calling next()), threw
\*   handler   the route handler that was entered, or none
\*   hpc       the handler's position: none, hash, query, compare (awaits),
\*             done, threw
\*   resp      the response sent, <<>> while none
\*   resent    sends attempted after the response was sent
IdleReq ==
  [route |-> "other", header |-> NoHeader, body |-> EmptyBody,
   known |-> {}, lease |-> "idle", db |-> <<>>, session |-> <<>>, releases |-> 0,
   gate |-> "notrun", verified |-> FALSE, user |-> <<>>,
   handler |-> "none", hpc |-> "none",
   resp |-> <<>>, resent |-> 0]

Init ==
  /\ variant \in Variants
  /\ freeConnections = [i \in 1..PoolSize |-> i]
  /\ users = <<>>
  /\ entries = <<>>
  /\ cars = 0
  /\ issued = {}
  /\ req = [r \in Reqs |-> IdleReq]

\* The continuation of `await next()` is a microtask: it runs before any
\* timer or I/O callback.
NoMicrotask == \A r \in Reqs : req[r].lease # "afterNext"

\* The lease middleware and the handler of a request have both ended.
Finished(rq) ==
  /\ rq.lease \in {"done", "threw"}
  /\ rq.hpc \in {"none", "done", "threw"}

\* The request has arrived and its handling has not ended.
InFlight(rq) == rq.lease # "idle" /\ ~Finished(rq)

\* res.json(...) / res.status(s).json(...): the first send is the response; a
\* later one throws ERR_HTTP_HEADERS_SENT.
Send(rq, resp) ==
  IF rq.resp = <<>> THEN [rq EXCEPT !.resp = <<resp>>]
  ELSE [rq EXCEPT !.resent = @ + 1]

\* ------------------------------------------------------------ inputs
RegisterBody(u, p) == [EmptyBody EXCEPT !.username = u, !.password = p]

\* Bodies of POST /register: two plain registrations, one that also carries
\* userId and UserID fields, two that carry exp / nbf fields, one without a
\* password, one without a username.
RegisterBodies ==
  {RegisterBody("a", "p"),
   RegisterBody("b", "q"),
   [RegisterBody("b", "q") EXCEPT !.userId = 1, !.UserID = 1],
   [RegisterBody("a", "p") EXCEPT !.when = "expired"],
   [RegisterBody("b", "q") EXCEPT !.when = "notbefore"],
   RegisterBody("a", ""),
   RegisterBody("", "p")}

LoginBodies == {RegisterBody("a", "p"), RegisterBody("a", "q"), RegisterBody("b", "q")}

EntryBody(id, t, c, m) == [EmptyBody EXCEPT !.id = id, !.title = t, !.content = c, !.mood = m]

\* The bodies (and, for DELETE, the :id parameter as body.id) tried on a route.
Bodies(route) ==
  CASE route = "register" -> RegisterBodies
    [] route = "login" -> LoginBodies
    [] route = "entry_post" -> {EntryBody(0, "t", "c", "m"), EntryBody(0, "t", "c", "")}
    [] route = "entry_put" -> {EntryBody(i, "t2", "c2", "m2") : i \in 1..MaxRows}
    [] route = "entry_delete" -> {EntryBody(i, "", "", "") : i \in 1..MaxRows}
    [] OTHER -> {EmptyBody}

Input(route, header, body) == [route |-> route, header |-> header, body |-> body]

\* Authorization headers that are not `Bearer <token issued by this server>`.
OddHeaders(iss) ==
  {NoHeader, Header(<<Word("")>>), Header(<<Word("Bearer")>>)}
  \cup {Header(<<Word("Bearer"), t>>) : t \in Forged}
  \cup {Header(<<Word("Basic"), t>>) : t \in iss}
  \cup {Header(<<Word("Bearer"), t, Word("x")>>) : t \in iss}

\* The requests tried: every route before the gate with every body (no such
\* route reads the header); every route after the gate, and a path no layer
\* matches, with every body and every issued token as the bearer; and the odd
\* headers on POST /entry_table (a path no layer matches, where the variant
\* has no such route).
Inputs(v, iss) ==
  UNION {{Input(rt, NoHeader, b) : b \in Bodies(rt)} : rt \in BeforeGate(v)}
  \cup UNION {{Input(rt, Header(<<Word("Bearer"), t>>), b) : t \in iss, b \in Bodies(rt)} :
                rt \in AfterGate(v) \cup {"other"}}
  \cup {Input("entry_post", h, EntryBody(0, "t", "c", "m")) : h \in OddHeaders(iss)}

\* The requests tried at the same time: a registration, the reads and writes
\* of entries with an issued token as the bearer or with no header, GET /car
\* and a path no layer matches.
ConcInputs(v, iss) ==
  {in \in Inputs(v, iss) :
     /\ in.route \in {"register", "entry_get", "entry_post", "car_get", "other"}
     /\ in.body \in {RegisterBody("a", "p"), EmptyBody, EntryBody(0, "t", "c", "m")}
     /\ in.header = NoHeader \/ (Len(in.header.parts) = 2 /\ in.header.parts[2] \in iss)}

\* Requests of a route that are in flight.
Pending(route) == Cardinality({r \in Reqs : InFlight(req[r]) /\ req[r].route = route})

\* The tables are bounded: a request that may add a row arrives only while
\* the rows and the requests that may still add one stay within the bound.
Room(route) ==
  CASE route = "register" -> Len(users) + Pending("register") < MaxUsers
    [] route = "entry_post" -> Len(entries) + Pending("entry_post") < MaxRows
    [] route = "car_post" -> cars + Pending("car_post") < MaxRows
    [] OTHER -> TRUE

\* ------------------------------------------------------------ handlers, first segment
\* The handler of the request's route, run up to its first await (or to its
\* end).  A handler is an async function: what it throws rejects its promise.
StartHandler(rq) ==
  LET h == [rq EXCEPT !.handler = rq.route] IN
  CASE rq.route = "register" -> [h EXCEPT !.hpc = "hash"]
    [] rq.route = "login" -> [h EXCEPT !.hpc = "query"]
    [] rq.route = "entry_post" ->
         \* const { userId } = req.user
         IF rq.user = <<>> THEN [h EXCEPT !.hpc = "threw"]
         ELSE IF rq.body.title = "" \/ rq.body.content = "" \/ rq.body.mood = ""
           THEN [Send(h, Response(400, "missing_fields")) EXCEPT !.hpc = "done"]
         ELSE [h EXCEPT !.hpc = "query"]
    [] rq.route \in {"entry_get", "user_get"} ->
         IF rq.user = <<>> THEN [h EXCEPT !.hpc = "threw"]
         ELSE [h EXCEPT !.hpc = "query"]
    [] rq.route \in {"entry_put", "entry_delete", "car_get", "car_post"} ->
         [h EXCEPT !.hpc = "query"]
    [] rq.route = "car_delete" ->
         [Send(h, Response(200, "success")) EXCEPT !.hpc = "done"]

\* next() with the gate mounted so that GET /entry_table does not pass
\* through it: the handler is entered whatever the header holds.
callNextGetUngated(v, rq) ==
  IF rq.route \in BeforeGate(v) \cup {"entry_get"} THEN StartHandler(rq)
  ELSE
    LET g == verifyJwt(v, rq.header)
        rq1 == [rq EXCEPT
                  !.gate = IF g.threw THEN "threw" ELSE IF g.next THEN "next" ELSE "rejected",
                  !.verified = g.verified,
                  !.user = g.user,
                  !.resp = g.resp,
                  !.resent = IF g.resent THEN 1 ELSE 0,
                  !.body = IF g.clobber THEN EmptyBody ELSE rq.body]
    IN IF ~g.next THEN rq1
       ELSE IF rq.route \in AfterGate(v) THEN StartHandler(rq1)
       ELSE IF rq1.resp = <<>> THEN Send(rq1, Response(404, "no_route"))
       ELSE rq1

\* Express's next() as the lease middleware calls it: the layers after it, in
\* order, each run synchronously up to its first await.
callNext(v, rq) ==
  IF rq.route \in BeforeGate(v) THEN StartHandler(rq)
  ELSE
    LET g == verifyJwt(v, rq.header)
        rq1 == [rq EXCEPT
                  !.gate = IF g.threw THEN "threw" ELSE IF g.next THEN "next" ELSE "rejected",
                  !.verified = g.verified,
                  !.user = g.user,
                  !.resp = g.resp,
                  !.resent = IF g.resent THEN 1 ELSE 0,
                  !.body = IF g.clobber THEN EmptyBody ELSE rq.body]
    IN IF ~g.next THEN rq1
       ELSE IF rq.route \in AfterGate(v) THEN StartHandler(rq1)
       \* no layer matches: Express answers 404, unless a response was sent
       ELSE IF rq1.resp = <<>> THEN Send(rq1, Response(404, "no_route"))
       ELSE rq1

\* ------------------------------------------------------------ the lease middleware
\* A request arrives on a free slot; the middleware runs to
\* `await pool.getConnection()`.  The middleware reads nothing of the request:
\* its route, header and body are drawn where next() hands it to the layers
\* that read them.  The header can carry only a token issued before the
\* request was sent: `known` keeps those until then.
Arrive(r) ==
  /\ NoMicrotask
  /\ req[r].lease = "idle" \/ Finished(req[r])
  /\ req' = [req EXCEPT ![r] = [IdleReq EXCEPT !.lease = "getConnection", !.known = issued]]
  /\ UNCHANGED <<variant, freeConnections, users, entries, cars, issued>>

\* req.db.release()
release(rq) == [rq EXCEPT !.releases = @ + 1]

\* The catch block without its release: throw err
leaseCatchNoRelease(rq) == [rq EXCEPT !.lease = "threw"]

\* The catch block: if (req.db) req.db.release(); throw err
leaseCatch(rq) == [(IF rq.db # <<>> THEN release(rq) ELSE rq) EXCEPT !.lease = "threw"]

\* What the pool's queue is after the request's release() calls.
Returned(before, after) ==
  IF after.releases > before.releases /\ after.db # <<>>
    THEN [i \in 1..(after.releases - before.releases) |-> after.db[1]]
  ELSE <<>>

\* pool.getConnection() resolves with the head of the free queue (and the
\* first session statement is issued), or rejects.
GetConnection(r) ==
  /\ NoMicrotask
  /\ req[r].lease = "getConnection"
  /\ \/ /\ freeConnections # <<>>
        /\ req' = [req EXCEPT ![r].db = <<Head(freeConnections)>>, ![r].lease = "sql_mode"]
        /\ freeConnections' = Tail(freeConnections)
     \/ /\ req' = [req EXCEPT ![r] = leaseCatch(req[r])]
        /\ UNCHANGED freeConnections
  /\ UNCHANGED <<variant, users, entries, cars, issued>>

\* SET SESSION sql_mode whose rejection is swallowed: the middleware goes on
\* to the next statement either way.
SqlModeSwallow(r) ==
  /\ NoMicrotask
  /\ req[r].lease = "sql_mode"
  /\ \/ req' = [req EXCEPT ![r].lease = "time_zone",
                          ![r].session = Append(@, "TRADITIONAL")]
     \/ req' = [req EXCEPT ![r].lease = "time_zone"]
  /\ UNCHANGED <<variant, freeConnections, users, entries, cars, issued>>

\* SET SESSION sql_mode = "TRADITIONAL" resolves or rejects.
SqlMode(r) ==
  /\ NoMicrotask
  /\ req[r].lease = "sql_mode"
  /\ \/ /\ req' = [req EXCEPT ![r].lease = "time_zone",
                             ![r].session = Append(@, "TRADITIONAL")]
        /\ UNCHANGED freeConnections
     \/ /\ req' = [req EXCEPT ![r] = leaseCatch(req[r])]
        /\ freeConnections' = freeConnections \o Returned(req[r], req'[r])
  /\ UNCHANGED <<variant, users, entries, cars, issued>>

\* SET time_zone = '-8:00' resolves, and the middleware calls next() on the
\* request (one of `inputs`) and suspends at `await next()`; or it rejects.
TimeZone(r, inputs) ==
  /\ NoMicrotask
  /\ req[r].lease = "time_zone"
  /\ \/ /\ \E in \in inputs :
             /\ Room(in.route)
             /\ req' = [req EXCEPT ![r] =
                  [callNext(variant, [req[r] EXCEPT !.route = in.route, !.header = in.header,
                                                    !.body = in.body, !.known = {},
                                                    !.session = Append(@, "-8:00")])
                     EXCEPT !.lease = "afterNext"]]
        /\ UNCHANGED freeConnections
     \/ /\ req' = [req EXCEPT ![r] = leaseCatch(req[r])]
        /\ freeConnections' = freeConnections \o Returned(req[r], req'[r])
  /\ UNCHANGED <<variant, users, entries, cars, issued>>

\* The continuation of `await next()`: req.db.release().
AfterNext(r) ==
  /\ req[r].lease = "afterNext"
  /\ req' = [req EXCEPT ![r] = [release(req[r]) EXCEPT !.lease = "done"]]
  /\ freeConnections' = freeConnections \o Returned(req[r], req'[r])
  /\ UNCHANGED <<variant, users, entries, cars, issued>>

\* ------------------------------------------------------------ the store
\* bcrypt.hash(password, 10): the digest records its cost and, one way, the
\* password it was made from.
bcryptHash(password) == [cost |-> 10, of |-> password]

\* bcrypt.compare(password, digest)
bcryptCompare(password, digest) == digest.of = password

\* SELECT * FROM user_table WHERE Username = :username: the ids of the rows.
UserRows(username) == {i \in 1..Len(users) : users[i].username = username}

\* INSERT INTO user_table: the username is unique and not null (TRADITIONAL
\* mode rejects the row otherwise).
CanInsertUser(username) == username # "" /\ UserRows(username) = {}

\* { UserID: user.insertId, ...req.body } (index.cjs, part_000) and
\* { userId: user.insertId, ...req.body } (part_001): the body's fields are
\* spread over the id.
RegisterPayload(v, insertId, body) ==
  IF v = "part_001"
    THEN [userId |-> IF body.userId # 0 THEN body.userId ELSE insertId,
          UserID |-> body.UserID,
          when |-> body.when]
  ELSE [userId |-> body.userId,
        UserID |-> IF body.UserID # 0 THEN body.UserID ELSE insertId,
        when |-> body.when]

\* The login payload read from a column the row does not have: userId is
\* undefined and is left out of the token.
LoginPayloadNoId(id) == [userId |-> 0, UserID |-> 0, when |-> "ok"]

\* { userId: user.UserID, username: user.Username } (user.id in part_001)
LoginPayload(id) == [userId |-> id, UserID |-> 0, when |-> "ok"]

\* const { userId } = req.user
userIdOf(rq) == rq.user[1].userId

\* UPDATE entry_table SET Title, Content, Mood WHERE EntryID = :id
UpdateEntry(rq) ==
  [i \in 1..Len(entries) |->
     IF i = rq.body.id
       THEN [entries[i] EXCEPT !.title = rq.body.title, !.content = rq.body.content,
                               !.mood = rq.body.mood]
     ELSE entries[i]]

\* DELETE FROM entry_table WHERE EntryID = :entryId in the place of the
\* UPDATE: the row is removed.
DeleteEntryPhysical(rq) ==
  IF rq.body.id \in 1..Len(entries)
    THEN [i \in 1..(Len(entries) - 1) |->
            IF i < rq.body.id THEN entries[i] ELSE entries[i + 1]]
  ELSE entries

\* UPDATE entry_table SET DeletedFlag = 1 WHERE EntryID = :entryId
DeleteEntry(rq) ==
  [i \in 1..Len(entries) |->
     IF i = rq.body.id THEN [entries[i] EXCEPT !.deleted = TRUE] ELSE entries[i]]

\* SELECT * FROM entry_table WHERE UserID = :userId AND DeletedFlag = 0
\* (an undefined userId binds NULL, which equals no row's UserID)
SelectEntries(rq) ==
  {i \in 1..Len(entries) :
     userIdOf(rq) # 0 /\ entries[i].owner = userIdOf(rq) /\ ~entries[i].deleted}

\* ------------------------------------------------------------ handlers, later segments
Awaiting(r, handler, hpc) ==
  /\ NoMicrotask
  /\ req[r].handler = handler
  /\ req[r].hpc = hpc

\* POST /register: bcrypt.hash settles; the INSERT is issued, or (no
\* password) the catch block answers.
RegisterHash(r) ==
  /\ Awaiting(r, "register", "hash")
  /\ req' = [req EXCEPT ![r] =
       IF req[r].body.password = ""
         THEN [Send(req[r], Response(200, "registration_error")) EXCEPT !.hpc = "done"]
       ELSE [req[r] EXCEPT !.hpc = "query"]]
  /\ UNCHANGED <<variant, freeConnections, users, entries, cars, issued>>

\* POST /register: the INSERT settles; the token is signed and sent, or the
\* catch block answers.
RegisterInsert(r) ==
  /\ Awaiting(r, "register", "query")
  /\ \/ /\ CanInsertUser(req[r].body.username)
        /\ LET token == jwtSign(RegisterPayload(variant, Len(users) + 1, req[r].body)) IN
           /\ users' = Append(users, [username |-> req[r].body.username,
                                      password |-> bcryptHash(req[r].body.password)])
           /\ issued' = issued \cup {token}
           /\ req' = [req EXCEPT ![r] =
                [Send(req[r], [Response(200, "registered") EXCEPT !.jwt = <<token>>])
                   EXCEPT !.hpc = "done"]]
     \/ /\ req' = [req EXCEPT ![r] =
             [Send(req[r], Response(200, "registration_error")) EXCEPT !.hpc = "done"]]
        /\ UNCHANGED <<users, issued>>
  /\ UNCHANGED <<variant, freeConnections, entries, cars>>

\* POST /login (index.cjs, part_000) and POST /log-in (part_001): the SELECT
\* settles.
LoginSelect(r) ==
  /\ Awaiting(r, "login", "query")
  /\ \/ req' = [req EXCEPT ![r] =
          IF UserRows(req[r].body.username) # {}
            THEN [req[r] EXCEPT !.hpc = "compare"]
          ELSE IF variant = "part_001"
            \* res.json('Username not found'), then user.password throws
            \* into the catch block, which only logs
            THEN [Send(req[r], Response(200, "username_not_found")) EXCEPT !.hpc = "done"]
          ELSE [Send(req[r], Response(404, "username_not_found")) EXCEPT !.hpc = "done"]]
     \/ req' = [req EXCEPT ![r] =
          IF variant = "part_001" THEN [req[r] EXCEPT !.hpc = "done"]
          ELSE [Send(req[r], Response(500, "internal")) EXCEPT !.hpc = "done"]]
  /\ UNCHANGED <<variant, freeConnections, users, entries, cars, issued>>

\* POST /login: bcrypt.compare settles.
LoginCompare(r) ==
  /\ Awaiting(r, "login", "compare")
  /\ LET id == CHOOSE i \in UserRows(req[r].body.username) : TRUE
         token == jwtSign(LoginPayload(id)) IN
     IF bcryptCompare(req[r].body.password, users[id].password)
       THEN /\ issued' = issued \cup {token}
            /\ req' = [req EXCEPT ![r] =
                 [Send(req[r], [Response(200, "logged_in") EXCEPT !.jwt = <<token>>])
                    EXCEPT !.hpc = "done"]]
     ELSE /\ UNCHANGED issued
          /\ req' = [req EXCEPT ![r] =
               [Send(req[r], IF variant = "part_001" THEN Response(200, "password_not_found")
                             ELSE Response(401, "password_incorrect"))
                  EXCEPT !.hpc = "done"]]
  /\ UNCHANGED <<variant, freeConnections, users, entries, cars>>

\* POST /entry_table: the INSERT settles; a rejection is not caught.
EntryPost(r) ==
  /\ Awaiting(r, "entry_post", "query")
  /\ \/ /\ entries' = Append(entries, [owner |-> userIdOf(req[r]), title |-> req[r].body.title,
                                       content |-> req[r].body.content,
                                       mood |-> req[r].body.mood, deleted |-> FALSE])
        /\ req' = [req EXCEPT ![r] =
             [Send(req[r], [Response(200, "created") EXCEPT !.rows = {Len(entries) + 1}])
                EXCEPT !.hpc = "done"]]
     \/ /\ req' = [req EXCEPT ![r].hpc = "threw"]
        /\ UNCHANGED entries
  /\ UNCHANGED <<variant, freeConnections, users, cars, issued>>

\* PUT /entry_table: the UPDATE settles.
EntryPut(r) ==
  /\ Awaiting(r, "entry_put", "query")
  /\ \/ /\ entries' = UpdateEntry(req[r])
        /\ req' = [req EXCEPT ![r] =
             [Send(req[r], Response(200, "updated")) EXCEPT !.hpc = "done"]]
     \/ /\ req' = [req EXCEPT ![r] =
             [Send(req[r], Response(500, "internal")) EXCEPT !.hpc = "done"]]
        /\ UNCHANGED entries
  /\ UNCHANGED <<variant, freeConnections, users, cars, issued>>

\* GET /entry_table: the SELECT settles; a rejection is not caught.
EntryGet(r) ==
  /\ Awaiting(r, "entry_get", "query")
  /\ \/ req' = [req EXCEPT ![r] =
          [Send(req[r], [Response(200, "entries") EXCEPT !.rows = SelectEntries(req[r])])
             EXCEPT !.hpc = "done"]]
     \/ req' = [req EXCEPT ![r].hpc = "threw"]
  /\ UNCHANGED <<variant, freeConnections, users, entries, cars, issued>>

\* DELETE /entry_table/:id: the UPDATE settles; a rejection is not caught.
EntryDelete(r) ==
  /\ Awaiting(r, "entry_delete", "query")
  /\ \/ /\ entries' = DeleteEntry(req[r])
        /\ req' = [req EXCEPT ![r] =
             [Send(req[r], Response(200, "success")) EXCEPT !.hpc = "done"]]
     \/ /\ req' = [req EXCEPT ![r].hpc = "threw"]
        /\ UNCHANGED entries
  /\ UNCHANGED <<variant, freeConnections, users, cars, issued>>

\* GET /user_table: the SELECT settles; a rejection is not caught.
UserGet(r) ==
  /\ Awaiting(r, "user_get", "query")
  /\ \/ req' = [req EXCEPT ![r] =
          [Send(req[r], IF userIdOf(req[r]) \in 1..Len(users) THEN Response(200, "username")
                        ELSE Response(404, "user_not_found"))
             EXCEPT !.hpc = "done"]]
     \/ req' = [req EXCEPT ![r].hpc = "threw"]
  /\ UNCHANGED <<variant, freeConnections, users, entries, cars, issued>>

\* GET /car: the SELECT settles; a rejection is not caught.
CarGet(r) ==
  /\ Awaiting(r, "car_get", "query")
  /\ \/ req' = [req EXCEPT ![r] =
          [Send(req[r], [Response(200, "cars") EXCEPT !.rows = 1..cars]) EXCEPT !.hpc = "done"]]
     \/ req' = [req EXCEPT ![r].hpc = "threw"]
  /\ UNCHANGED <<variant, freeConnections, users, entries, cars, issued>>

\* POST /car: the INSERT settles; a rejection is not caught.
CarPost(r) ==
  /\ Awaiting(r, "car_post", "query")
  /\ \/ /\ cars' = cars + 1
        /\ req' = [req EXCEPT ![r] =
             [Send(req[r], [Response(200, "created") EXCEPT !.rows = {cars + 1}])
                EXCEPT !.hpc = "done"]]
     \/ /\ req' = [req EXCEPT ![r].hpc = "threw"]
        /\ UNCHANGED cars
  /\ UNCHANGED <<variant, freeConnections, users, entries, issued>>

\* ------------------------------------------------------------ specification
\* One client sending one request after the other, with every input: the
\* requests use the first slot.
Next ==
  \E r \in {1} :
    \/ Arrive(r)
    \/ GetConnection(r)
    \/ SqlMode(r)
    \/ TimeZone(r, Inputs(variant, req[r].known))
    \/ AfterNext(r)
    \/ RegisterHash(r)
    \/ RegisterInsert(r)
    \/ LoginSelect(r)
    \/ LoginCompare(r)
    \/ EntryPost(r)
    \/ EntryPut(r)
    \/ EntryGet(r)
    \/ EntryDelete(r)
    \/ UserGet(r)
    \/ CarGet(r)
    \/ CarPost(r)

Spec == Init /\ [][Next]_vars

\* Clients sending requests at the same time, each a registration, a read or
\* a write of entries, GET /car or a path no layer matches.
NextConc ==
  \E r \in Reqs :
    \/ Arrive(r)
    \/ GetConnection(r)
    \/ SqlMode(r)
    \/ TimeZone(r, ConcInputs(variant, req[r].known))
    \/ AfterNext(r)
    \/ RegisterHash(r)
    \/ RegisterInsert(r)
    \/ EntryPost(r)
    \/ EntryGet(r)
    \/ CarGet(r)

SpecConc == Init /\ [][NextConc]_vars

\* ------------------------------------------------------------ properties
\* The lease middleware of the request holds a connection it has not released.
Holding(rq) == rq.lease \in {"sql_mode", "time_zone", "afterNext"}

\* The handler of the request is suspended at an await.
HandlerPending(rq) == rq.hpc \in {"hash", "query", "compare"}

\* The header is exactly `Bearer <token>`.
WellShaped(h) ==
  /\ h.present
  /\ Len(h.parts) = 2
  /\ h.parts[1] = Word("Bearer")
  /\ h.parts[2].text # ""

\* The gate has run for the request.
GateRan(rq) == rq.gate # "notrun"

\* C1: every request that acquired a connection releases it exactly once on
\* every exit path, never twice and never not at all, and the pool's count of
\* outstanding leases is the number of requests that hold one: it is back to
\* zero once the requests have completed.
C1_ReleasedExactlyOnce ==
  /\ \A r \in Reqs :
       /\ req[r].releases <= 1
       /\ Holding(req[r]) => req[r].db # <<>> /\ req[r].releases = 0
       /\ req[r].lease \in {"done", "threw"} => req[r].releases = Len(req[r].db)
  /\ PoolSize - Len(freeConnections) = Cardinality({r \in Reqs : Holding(req[r])})
  /\ \A i, j \in 1..Len(freeConnections) : i # j => freeConnections[i] # freeConnections[j]

\* C1 witness: one request was rejected by the gate and another failed in a
\* session statement; both released their connection and the pool is whole.
C1_Witness ==
  \E r1, r2 \in Reqs :
    /\ req[r1].lease = "done" /\ req[r1].gate = "rejected" /\ req[r1].releases = 1
    /\ req[r2].lease = "threw" /\ req[r2].db # <<>> /\ req[r2].releases = 1
    /\ Len(freeConnections) = PoolSize

\* C2: the downstream pipeline of a request runs to completion before its
\* connection is released (no handler is suspended on a connection already
\* returned to the pool), and no connection is req.db of two requests in
\* flight.
C2_PipelineBeforeRelease ==
  /\ \A r \in Reqs : req[r].releases > 0 => ~HandlerPending(req[r])
  /\ \A r1, r2 \in Reqs :
       (r1 # r2 /\ InFlight(req[r1]) /\ InFlight(req[r2]) /\ req[r1].db # <<>>)
         => req[r1].db # req[r2].db

\* C3: a request without an Authorization header never enters a handler
\* registered after the gate; the gate answers it and does not call next().
C3_NoHeaderRejected ==
  \A r \in Reqs :
    (req[r].lease # "idle" /\ ~req[r].header.present) =>
      /\ req[r].handler \notin AfterGate(variant)
      /\ req[r].user = <<>>
      /\ GateRan(req[r]) => req[r].gate \in {"rejected", "threw"} /\ req[r].resp # <<>>

\* C3 witness: POST /entry_table without a header has been through the gate.
C3_Witness ==
  \E r \in Reqs :
    /\ variant = "part_000"
    /\ req[r].route = "entry_post"
    /\ ~req[r].header.present
    /\ req[r].gate = "rejected"
    /\ req[r].lease = "done"

\* The outcome of jwt.verify on the token of the request's header.
Verdict(rq) == jwtVerify(hasToken(rq.header), jwtToken(rq.header))

\* C4: when jwt.verify fails in the gate because the token is expired or is
\* malformed or has an invalid signature, the gate does not call next().
C4_FailedVerifyNoNext ==
  \A r \in Reqs :
    (/\ req[r].verified
     /\ ~Verdict(req[r]).ok
     /\ Verdict(req[r]).name \in {"TokenExpiredError", "JsonWebTokenError"})
      => req[r].gate # "next" /\ req[r].handler = "none"

\* C5: a header that is present and not exactly `Bearer <token>` is answered
\* 401 with the scheme-mismatch error, its token is neither verified nor
\* attached, and next() is not called.
C5_BadShapeRejected ==
  \A r \in Reqs :
    (GateRan(req[r]) /\ ~Falsy(req[r].header) /\ ~WellShaped(req[r].header)) =>
      /\ req[r].resp = <<Response(401, "bad_scheme")>>
      /\ ~req[r].verified
      /\ req[r].user = <<>>
      /\ req[r].gate = "rejected"

\* C6: a well-shaped header whose token has a good signature and an expiry in
\* the past is answered by the gate with 401 'expired'.
C6_ExpiredIsExpired ==
  \A r \in Reqs :
    (/\ GateRan(req[r])
     /\ WellShaped(req[r].header)
     /\ jwtToken(req[r].header).sig = "good"
     /\ jwtToken(req[r].header).claims.when = "expired")
      => req[r].resp = <<Response(401, "expired")>> /\ req[r].gate = "rejected"

\* C7: req.user is absent, or it is the claims of the token in the second
\* part of the request's own Authorization header, and that token is a JWT
\* this server signed, in its validity period.
C7_UserIsVerifiedClaims ==
  \A r \in Reqs :
    req[r].user # <<>> =>
      /\ req[r].header.present
      /\ hasToken(req[r].header)
      /\ jwtToken(req[r].header).text = "jwt"
      /\ jwtToken(req[r].header).sig = "good"
      /\ jwtToken(req[r].header) \in issued
      /\ jwtToken(req[r].header).claims.when = "ok"
      /\ req[r].user = <<jwtToken(req[r].header).claims>>

\* C7 witness: a request carrying an issued token has passed the gate and
\* entered POST /entry_table with req.user set.
C7_Witness ==
  \E r \in Reqs :
    /\ req[r].user # <<>>
    /\ req[r].handler = "entry_post"
    /\ req[r].body.userId = 0

\* C8: a step of a request authenticated as identity A leaves every entry of
\* another identity B unchanged, and a list of entries returns only A's
\* entries.
C8_EntriesScoped ==
  [][\A r \in Reqs :
       (req[r].user # <<>> /\ req'[r] # req[r]) =>
         /\ \A i \in 1..Len(entries) :
              (/\ userIdOf(req[r]) \in Ids
               /\ entries[i].owner \in Ids
               /\ entries[i].owner # userIdOf(req[r]))
                => entries'[i] = entries[i]
         /\ (req'[r].handler = "entry_get" /\ req'[r].resp # <<>>) =>
              \A i \in req'[r].resp[1].rows : entries[i].owner = userIdOf(req[r])]_vars

\* C9: a handler entered by a request without a verified token is register
\* or login.
C9_OnlyRegisterLoginPublic ==
  \A r \in Reqs :
    (req[r].handler # "none" /\ req[r].user = <<>>) => req[r].handler \in {"register", "login"}

\* C10: the token Register sends carries, as its userId claim, the id the
\* store gave the row it inserted, whatever the body holds.
C10_RegisterTokenCarriesInsertId ==
  \A r \in Reqs :
    (req[r].handler = "register" /\ req[r].resp # <<>> /\ req[r].resp[1].jwt # <<>>) =>
      req[r].resp[1].jwt[1].claims.userId \in UserRows(req[r].body.username)

\* The rows of the user table with this username whose digest is of this
\* password.
Registered(u, p) == {i \in UserRows(u) : bcryptCompare(p, users[i].password)}

\* The login of the request has ended with an answer that is not the store's
\* failure.
LoginAnswered(rq) ==
  /\ rq.handler = "login"
  /\ rq.hpc = "done"
  /\ rq.resp # <<>>
  /\ rq.resp[1].msg # "internal"

\* C11: a login with the username and password of a registration made before
\* it succeeds: it is answered with a token that verifies, and the token's
\* userId claim is the id the store gave that registration's row.
C11_LoginAfterRegister ==
  \A r \in Reqs :
    (LoginAnswered(req[r]) /\ Registered(req[r].body.username, req[r].body.password) # {}) =>
      /\ req[r].resp[1].msg = "logged_in"
      /\ req[r].resp[1].jwt # <<>>
      /\ jwtVerify(TRUE, req[r].resp[1].jwt[1]).ok
      /\ jwtVerify(TRUE, req[r].resp[1].jwt[1]).claims.userId
           \in Registered(req[r].body.username, req[r].body.password)

\* C11 witness: the second identity registered has logged in and its token
\* carries id 2.
C11_Witness ==
  \E r \in Reqs :
    /\ LoginAnswered(req[r])
    /\ Len(users) = 2
    /\ Registered(req[r].body.username, req[r].body.password) = {2}
    /\ req[r].resp[1].jwt # <<>>
    /\ req[r].resp[1].jwt[1].claims.userId = 2

\* C12: a login with a username that is not in the store is answered with a
\* not-found client error; one with a stored username and a wrong password
\* is answered 401 and carries no token; a token is sent only when the
\* password matches the stored digest.
C12_LoginClassified ==
  \A r \in Reqs :
    LoginAnswered(req[r]) =>
      LET u == req[r].body.username
          p == req[r].body.password
          rs == req[r].resp[1]
      IN /\ UserRows(u) = {} => rs.status \in 400..499 /\ rs.msg = "username_not_found"
         /\ (UserRows(u) # {} /\ Registered(u, p) = {}) => rs.status = 401 /\ rs.jwt = <<>>
         /\ rs.jwt # <<>> => Registered(u, p) # {}

\* C13: a request whose pool.getConnection() failed is answered with a
\* service-unavailable error, and no layer after the lease middleware ran
\* for it.
C13_AcquireFailureAnswered ==
  \A r \in Reqs :
    (req[r].lease = "threw" /\ req[r].db = <<>>) =>
      /\ req[r].resp # <<>>
      /\ req[r].resp[1].status = 503
      /\ req[r].gate = "notrun"
      /\ req[r].handler = "none"

\* C14: when jwt.verify fails in the gate with an error that is neither
\* TokenExpiredError nor JsonWebTokenError, the gate answers 500, and the
\* request does not go on to a handler.
C14_UnexpectedIsInternal ==
  \A r \in Reqs :
    (/\ req[r].verified
     /\ ~Verdict(req[r]).ok
     /\ Verdict(req[r]).name \notin {"TokenExpiredError", "JsonWebTokenError"})
      => /\ req[r].resp = <<Response(500, "internal")>>
         /\ req[r].gate # "next"
         /\ req[r].handler = "none"

\* C15: the step that ends a Register whose body lacks the username or the
\* password, or whose username is already in the store, answers with a 4xx
\* status, sends no token, signs none and adds no row; usernames stay unique.
C15_BadRegisterIsClientError ==
  [][\A r \in Reqs :
       (/\ req[r].handler = "register"
        /\ req[r].hpc \in {"hash", "query"}
        /\ req'[r].hpc \in {"done", "threw"}
        /\ req[r].body.password = "" \/ ~CanInsertUser(req[r].body.username))
         => /\ req'[r].hpc = "done"
            /\ req'[r].resp # <<>>
            /\ req'[r].resp[1].status \in 400..499
            /\ req'[r].resp[1].jwt = <<>>
            /\ issued' = issued
            /\ users' = users]_vars

\* C16: no step removes a row of the entry table, changes its owner or
\* clears a set deleted flag; the step that ends DELETE /entry_table/:id
\* sets the deleted flag of that entry and changes nothing else; the list
\* GET /entry_table sends holds no deleted entry and every live entry of the
\* identity that asks.
C16_DeleteIsLogical ==
  [][/\ Len(entries') >= Len(entries)
     /\ \A i \in 1..Len(entries) :
          /\ entries'[i].owner = entries[i].owner
          /\ entries[i].deleted => entries'[i].deleted
     /\ \A r \in Reqs :
          /\ (req[r].handler = "entry_delete" /\ req[r].hpc = "query" /\ req'[r].hpc = "done") =>
               /\ Len(entries') = Len(entries)
               /\ \A i \in 1..Len(entries) :
                    entries'[i] = IF i = req[r].body.id THEN [entries[i] EXCEPT !.deleted = TRUE]
                                  ELSE entries[i]
          /\ (req[r].handler = "entry_get" /\ req[r].hpc = "query" /\ req'[r].hpc = "done") =>
               /\ req'[r].resp # <<>>
               /\ req'[r].resp[1].status = 200
               /\ \A i \in req'[r].resp[1].rows : ~entries[i].deleted
               /\ \A i \in 1..Len(entries) :
                    (/\ userIdOf(req[r]) \in Ids
                     /\ entries[i].owner = userIdOf(req[r])
                     /\ ~entries[i].deleted) => i \in req'[r].resp[1].rows]_vars

\* C16 witness: the owner of a deleted entry has listed their entries and
\* received none; the row is still in the table.
C16_Witness ==
  \E r \in Reqs :
    /\ req[r].handler = "entry_get"
    /\ req[r].hpc = "done"
    /\ req[r].resp # <<>>
    /\ req[r].resp[1].rows = {}
    /\ Len(entries) = 1
    /\ entries[1].deleted
    /\ userIdOf(req[r]) \in Ids
    /\ entries[1].owner = userIdOf(req[r])

\* next() has been called on the request, and its route has no handler
\* before the gate.
Gated(rq) == rq.lease \in {"afterNext", "done"} /\ rq.route \notin BeforeGate(variant)

\* What the gate decided for the request.
GateOutcome(rq) ==
  [gate |-> rq.gate, verified |-> rq.verified, user |-> rq.user,
   resp |-> IF rq.gate = "next" THEN <<>> ELSE rq.resp]

C18_SessionBeforeDownstream ==
  \A r \in Reqs :
    /\ (GateRan(req[r]) \/ req[r].handler # "none" \/ req[r].resp # <<>>) =>
         /\ req[r].db # <<>>
         /\ req[r].session = <<"TRADITIONAL", "-8:00">>
    /\ req[r].lease = "threw" =>
         /\ req[r].gate = "notrun"
         /\ req[r].handler = "none"
         /\ req[r].resp = <<>>
         /\ req[r].releases = Len(req[r].db)

\* C18 witness: the time zone statement of a request failed after its
\* sql_mode statement completed; its connection is back in the pool.
C18_Witness ==
  \E r \in Reqs :
    /\ req[r].lease = "threw"
    /\ req[r].session = <<"TRADITIONAL">>
    /\ req[r].releases = 1
    /\ Len(freeConnections) = PoolSize

\* C19: no send is attempted on a request after its response was sent, and a
\* gate that sent a response does not call next().
C19_AtMostOneResponse ==
  \A r \in Reqs :
    /\ req[r].resent = 0
    /\ (req[r].resp # <<>> /\ req[r].resp[1].msg \in {"no_header", "bad_scheme"}) =>
         req[r].gate # "next"

\* C20: a request whose lease middleware and handler have both ended (no
\* step of it is left to run) has a response.
C20_EveryRequestAnswered ==
  \A r \in Reqs : Finished(req[r]) => req[r].resp # <<>>

====
